---- MODULE Spec2Model ----
(***************************************************************************)
(* Model of tokio-postgres/src/config.rs: the connection configuration     *)
(* value `Config` (an `Arc<Inner>` with copy-on-write setters), the keyed  *)
(* dispatch `Config::param`, and the two connection-string parsers         *)
(* (`Parser`, the key/value grammar, and `UrlParser`) behind `from_str`.   *)
(*                                                                         *)
(* The model is of the default build: features `runtime` on a unix target. *)
(*                                                                         *)
(* A Rust `&str` / `[u8]` is a sequence of bytes.  A byte is written as a  *)
(* one-character string when it is printable ASCII and as "<n>" otherwise, *)
(* so that byte offsets, char boundaries and UTF-8 validity are those of   *)
(* the program.                                                            *)
(***************************************************************************)
EXTENDS Integers, Sequences, FiniteSets, TLC

VARIABLES
    handles,    \* [Handles -> cell | NoCell]: the Arc<Inner> each live Config points to
    heap,       \* [Cells -> <<>> | <<Inner>>]: the allocated Inner values
    pc,         \* position of the running program
    input,      \* the argument of from_str
    parser,     \* which parser object from_str built: "None" | "UrlParser" | "Parser"
    s,          \* UrlParser.s (remaining text) / the text Parser.it has not consumed yet
    chunks,     \* parse_host: the chunks of `host.split(',')` not iterated yet
    result,     \* the value returned by from_str, once it has returned
    last,       \* the last call made on a Config: operation, arguments, return value
    nops        \* number of API calls made so far

vars == <<handles, heap, pc, input, parser, s, chunks, result, last, nops>>

(***************************************************************************)
(* Bounds of the model.                                                    *)
(***************************************************************************)
MaxHandles == 2
MaxOps == 2
MaxHostTokens == 2
MaxPairs == 2
MaxParams == 2

(***************************************************************************)
(* Bytes and strings.                                                      *)
(***************************************************************************)
S(str) == [i \in 1..Len(str) |-> SubSeq(str, i, i)]

\* The element of a singleton set.  An operator below binds its arguments, and the
\* intermediate results it uses more than once, as the elements of singleton sets,
\* so that each of them is computed once.
Eval(set) == CHOOSE v \in set : TRUE

\* printable ASCII, 32..95 and 97..126 (a string cannot hold the grave accent, byte 96)
AsciiLow == S(" !\"#$%&'()*+,-./0123456789:;<=>?@ABCDEFGHIJKLMNOPQRSTUVWXYZ[\\]^_")

AsciiHigh == S("abcdefghijklmnopqrstuvwxyz{|}~")

Byte(n) ==
    IF n >= 32 /\ n <= 95 THEN AsciiLow[n - 31]
    ELSE IF n >= 97 /\ n <= 126 THEN AsciiHigh[n - 96]
    ELSE "<" \o ToString(n) \o ">"

CodeOf == [b \in {Byte(n) : n \in 0..255} |-> CHOOSE n \in 0..255 : Byte(n) = b]

\* s.starts_with(p)
StartsWith(str, p) == Len(str) >= Len(p) /\ SubSeq(str, 1, Len(p)) = p

\* s.is_char_boundary(i), for a byte offset i of a valid UTF-8 string
IsCharBoundary(str, i) ==
    \/ i = 0
    \/ i = Len(str)
    \/ i > 0 /\ i < Len(str) /\ ~(CodeOf[str[i + 1]] \in 128..191)

Panic == <<"panic">>

\* &s[i..]: panics unless i is a char boundary of s
SliceFrom(str, i) == IF i <= Len(str) /\ IsCharBoundary(str, i) THEN SubSeq(str, i + 1, Len(str)) ELSE Panic

\* &s[i..j]
Slice(str, i, j) == IF i <= j /\ j <= Len(str) /\ IsCharBoundary(str, i) /\ IsCharBoundary(str, j) THEN SubSeq(str, i + 1, j) ELSE Panic

\* s.find(&[char]) for ASCII chars: the byte offset of the first match, -1 for None
Find(str0, cs0) ==
    Eval({IF \E i \in 1..Len(str) : str[i] \in cs
          THEN (CHOOSE i \in 1..Len(str) : str[i] \in cs /\ \A j \in 1..(i - 1) : ~(str[j] \in cs)) - 1
          ELSE -1 : str \in {str0}, cs \in {cs0}})

RECURSIVE Split(_, _)
\* s.split(c): the pieces between the occurrences of c, at least one piece
Split(str0, c) ==
    Eval({IF i = -1 THEN <<str>> ELSE <<SubSeq(str, 1, i)>> \o Split(SubSeq(str, i + 2, Len(str)), c) :
          str \in {str0}, i \in {Find(str0, {c})}})

\* s.splitn(2, c): one piece, or the text before the first c and the text after it
SplitN2(str0, c) ==
    Eval({IF i = -1 THEN <<str>> ELSE <<SubSeq(str, 1, i), SubSeq(str, i + 2, Len(str))>> :
          str \in {str0}, i \in {Find(str0, {c})}})

HexVal(b) ==
    Eval({IF c \in 48..57 THEN c - 48
          ELSE IF c \in 65..70 THEN c - 55
          ELSE IF c \in 97..102 THEN c - 87
          ELSE -1 : c \in {CodeOf[b]}})

RECURSIVE percent_decode(_)
\* percent_encoding::percent_decode: %XX with two hex digits becomes the byte, all else is kept
percent_decode(str0) ==
    Eval({IF str = <<>> THEN <<>>
          ELSE IF str[1] = "%" /\ Len(str) >= 3 /\ HexVal(str[2]) >= 0 /\ HexVal(str[3]) >= 0
               THEN <<Byte(16 * HexVal(str[2]) + HexVal(str[3]))>> \o percent_decode(SubSeq(str, 4, Len(str)))
               ELSE <<str[1]>> \o percent_decode(Tail(str)) : str \in {str0}})

IsCont(b) == CodeOf[b] \in 128..191

\* number of bytes of the well-formed UTF-8 sequence at the head of bs, 0 if there is none
Utf8Width(bs0) ==
    Eval({IF c < 128 THEN 1
          ELSE IF c \in 194..223 THEN (IF n >= 2 /\ IsCont(bs[2]) THEN 2 ELSE 0)
          ELSE IF c \in 224..239
               THEN (IF n >= 3 /\ IsCont(bs[2]) /\ IsCont(bs[3])
                        /\ (c = 224 => CodeOf[bs[2]] >= 160) /\ (c = 237 => CodeOf[bs[2]] <= 159) THEN 3 ELSE 0)
          ELSE IF c \in 240..244
               THEN (IF n >= 4 /\ IsCont(bs[2]) /\ IsCont(bs[3]) /\ IsCont(bs[4])
                        /\ (c = 240 => CodeOf[bs[2]] >= 144) /\ (c = 244 => CodeOf[bs[2]] <= 143) THEN 4 ELSE 0)
          ELSE 0 : bs \in {bs0}, c \in {CodeOf[bs0[1]]}, n \in {Len(bs0)}})

RECURSIVE IsUtf8(_)
\* str::from_utf8(bs).is_ok()
IsUtf8(bs0) ==
    \A bs \in {bs0} :
        bs = <<>> \/ \E w \in {Utf8Width(bs)} : w > 0 /\ IsUtf8(SubSeq(bs, w + 1, Len(bs)))

(***************************************************************************)
(* Integer parsing (`str::parse`).                                         *)
(***************************************************************************)
IsDigit(b) == CodeOf[b] \in 48..57

\* u16::MAX, the largest port
U16Max == 65535

\* The largest integer the model parses for an i64 or u64 (i64::MAX is beyond the
\* integers of the model checker; the inputs of the model have fewer digits).
MaxInt == 999999999

RECURSIVE ParseDigits(_, _, _)
\* accumulate decimal digits, failing on a non-digit and on a value above max
ParseDigits(ds0, acc0, max) ==
    Eval({IF ds = <<>> THEN [ok |-> TRUE, v |-> acc]
          ELSE IF ~IsDigit(ds[1]) THEN [ok |-> FALSE, v |-> 0]
          ELSE IF acc > (max - (CodeOf[ds[1]] - 48)) \div 10 THEN [ok |-> FALSE, v |-> 0]
          ELSE ParseDigits(Tail(ds), acc * 10 + (CodeOf[ds[1]] - 48), max) : ds \in {ds0}, acc \in {acc0}})

\* <u16|u64 as FromStr>::from_str: an optional `+`, then at least one digit
ParseUnsigned(str0, max) ==
    Eval({IF ds = <<>> THEN [ok |-> FALSE, v |-> 0] ELSE ParseDigits(ds, 0, max) :
          ds \in {IF str0 # <<>> /\ str0[1] = "+" THEN Tail(str0) ELSE str0}})

\* <i64 as FromStr>::from_str: an optional sign, then at least one digit
ParseSigned(str0, max) ==
    Eval({IF ~p.ok THEN [ok |-> FALSE, v |-> 0]
          ELSE [ok |-> TRUE, v |-> IF str0[1] = "-" THEN 0 - p.v ELSE p.v] :
          p \in {IF str0 = <<>> THEN [ok |-> FALSE, v |-> 0]
                 ELSE IF str0[1] \in {"+", "-"}
                      THEN (IF Len(str0) = 1 THEN [ok |-> FALSE, v |-> 0] ELSE ParseDigits(Tail(str0), 0, max))
                      ELSE ParseDigits(str0, 0, max)}})

(***************************************************************************)
(* Results and errors.                                                     *)
(***************************************************************************)
Ok == [kind |-> "Ok", error |-> "", what |-> <<>>, at |-> -1]

\* Error::config_parse(Box::new(UnknownOption(key)))
UnknownOption(key) == [kind |-> "Err", error |-> "UnknownOption", what |-> key, at |-> -1]

\* Error::config_parse(Box::new(InvalidValue(name)))
InvalidValue(name) == [kind |-> "Err", error |-> "InvalidValue", what |-> S(name), at |-> -1]

\* Error::config_parse(msg.into()): a syntax error with its message, the offending
\* character and its byte offset where the message cites them
SyntaxError(msg, got, at) == [kind |-> "Err", error |-> msg, what |-> got, at |-> at]

\* Error::config_parse of a Utf8Error: percent-decoded bytes that are not text
DecodeError == [kind |-> "Err", error |-> "Utf8Error", what |-> <<>>, at |-> -1]

\* a panic: the function returns neither Ok nor Err
Panicked == [kind |-> "Panic", error |-> "", what |-> <<>>, at |-> -1]

(***************************************************************************)
(* Inner, and Config = Arc<Inner>.                                         *)
(***************************************************************************)
None == <<>>

Some(x) == <<x>>

Tcp(name) == [tag |-> "Tcp", v |-> name]

Unix(path) == [tag |-> "Unix", v |-> path]

DefaultPort == 5432

\* Config::new()
NewInner ==
    [user |-> None, password |-> None, dbname |-> None, options |-> None,
     application_name |-> None, host |-> <<>>, port |-> <<>>,
     connect_timeout |-> None, keepalives |-> TRUE,
     keepalives_idle |-> 2 * 60 * 60, target_session_attrs |-> "Any"]

Handles == 1..MaxHandles

Cells == 1..MaxHandles

NoCell == 0

Live(hs, h) == hs[h] # NoCell

\* Arc::strong_count
StrongCount(hs, c) == Cardinality({h \in Handles : hs[h] = c})

FreeCell(st) == CHOOSE c \in Cells : st.heap[c] = <<>> /\ \A d \in Cells : st.heap[d] = <<>> => c <= d

\* the Inner a handle observes
View(st, h) == st.heap[st.handles[h]][1]

\* faulty variant of make_mut: the shared Inner is mutated without a private copy
MakeMutInPlace(st, h) == st

\* Arc::make_mut: a uniquely owned Inner is mutated in place; a shared one is first
\* cloned into a fresh allocation that the handle is re-pointed to
MakeMut(st0, h) ==
    Eval({IF StrongCount(st.handles, st.handles[h]) = 1 THEN st
          ELSE [handles |-> [st.handles EXCEPT ![h] = FreeCell(st)],
                heap |-> [st.heap EXCEPT ![FreeCell(st)] = st.heap[st.handles[h]]]] : st \in {st0}})

\* Arc::make_mut(&mut self.0).<field> = <value>
SetField(st, h, f, x) ==
    Eval({[m EXCEPT !.heap[m.handles[h]] = <<[m.heap[m.handles[h]][1] EXCEPT ![f] = x]>>] : m \in {MakeMut(st, h)}})

user(st, h, v) == SetField(st, h, "user", Some(v))

password(st, h, v) == SetField(st, h, "password", Some(v))

dbname(st, h, v) == SetField(st, h, "dbname", Some(v))

options(st, h, v) == SetField(st, h, "options", Some(v))

application_name(st, h, v) == SetField(st, h, "application_name", Some(v))

host_path(st0, h, v) ==
    Eval({SetField(st, h, "host", Append(View(st, h).host, Unix(v))) : st \in {st0}})

host(st0, h, v0) ==
    Eval({IF StartsWith(v, <<"/">>) THEN host_path(st, h, v)
          ELSE SetField(st, h, "host", Append(View(st, h).host, Tcp(v))) : st \in {st0}, v \in {v0}})

\* faulty variant of port: the new port is put in front of the list
port_front(st0, h, p) ==
    Eval({SetField(st, h, "port", <<p>> \o View(st, h).port) : st \in {st0}})

port(st0, h, p) ==
    Eval({SetField(st, h, "port", Append(View(st, h).port, p)) : st \in {st0}})

connect_timeout(st, h, d) == SetField(st, h, "connect_timeout", Some(d))

keepalives(st, h, b) == SetField(st, h, "keepalives", b)

keepalives_idle(st, h, d) == SetField(st, h, "keepalives_idle", d)

target_session_attrs(st, h, a) == SetField(st, h, "target_session_attrs", a)
(***************************************************************************)
(* Config::param: the keyed dispatch.                                      *)
(***************************************************************************)
RECURSIVE param_host(_, _, _)
\* for host in value.split(',') { self.host(host); }
param_host(st0, h, comps0) ==
    Eval({IF comps = <<>> THEN st ELSE param_host(host(st, h, Head(comps)), h, Tail(comps)) :
          st \in {st0}, comps \in {comps0}})

RECURSIVE param_port_skip_empty(_, _, _)
\* faulty variant of the port arm: an empty component is skipped instead of
\* standing for the default port
param_port_skip_empty(st0, h, comps0) ==
    Eval({IF comps = <<>> THEN [st |-> st, res |-> Ok]
          ELSE IF Head(comps) = <<>> THEN param_port_skip_empty(st, h, Tail(comps))
          ELSE Eval({IF ~p.ok THEN [st |-> st, res |-> InvalidValue("port")]
                     ELSE param_port_skip_empty(port(st, h, p.v), h, Tail(comps)) :
                     p \in {ParseUnsigned(Head(comps), U16Max)}}) :
          st \in {st0}, comps \in {comps0}})

RECURSIVE param_port(_, _, _)
\* for port in value.split(',') { ...parse or 5432...?; self.port(port); }
param_port(st0, h, comps0) ==
    Eval({IF comps = <<>> THEN [st |-> st, res |-> Ok]
          ELSE Eval({IF ~p.ok THEN [st |-> st, res |-> InvalidValue("port")]
                     ELSE param_port(port(st, h, p.v), h, Tail(comps)) :
                     p \in {IF Head(comps) = <<>> THEN [ok |-> TRUE, v |-> DefaultPort]
                            ELSE ParseUnsigned(Head(comps), U16Max)}}) :
          st \in {st0}, comps \in {comps0}})

\* faulty variant of the connect_timeout arm: the test is `>= 0`, so 0 is applied
param_connect_timeout_zero(st, h, value) ==
    Eval({IF ~timeout.ok THEN [st |-> st, res |-> InvalidValue("connect_timeout")]
          ELSE IF timeout.v >= 0 THEN [st |-> connect_timeout(st, h, timeout.v), res |-> Ok]
          ELSE [st |-> st, res |-> Ok] : timeout \in {ParseSigned(value, MaxInt)}})

param_connect_timeout(st, h, value) ==
    Eval({IF ~timeout.ok THEN [st |-> st, res |-> InvalidValue("connect_timeout")]
          ELSE IF timeout.v > 0 THEN [st |-> connect_timeout(st, h, timeout.v), res |-> Ok]
          ELSE [st |-> st, res |-> Ok] : timeout \in {ParseSigned(value, MaxInt)}})

param_keepalives(st, h, value) ==
    Eval({IF ~k.ok THEN [st |-> st, res |-> InvalidValue("keepalives")]
          ELSE [st |-> keepalives(st, h, k.v # 0), res |-> Ok] : k \in {ParseUnsigned(value, MaxInt)}})

param_keepalives_idle(st, h, value) ==
    Eval({IF ~idle.ok THEN [st |-> st, res |-> InvalidValue("keepalives_idle")]
          ELSE IF idle.v > 0 THEN [st |-> keepalives_idle(st, h, idle.v), res |-> Ok]
          ELSE [st |-> st, res |-> Ok] : idle \in {ParseSigned(value, MaxInt)}})

param_target_session_attrs(st, h, value) ==
    IF value = S("any") THEN [st |-> target_session_attrs(st, h, "Any"), res |-> Ok]
    ELSE IF value = S("read-write") THEN [st |-> target_session_attrs(st, h, "ReadWrite"), res |-> Ok]
    ELSE [st |-> st, res |-> InvalidValue("target_session_attrs")]

\* faulty variant of the fallback arm: an unknown key is ignored
param_unknown_ignored(st, key) == [st |-> st, res |-> Ok]

\* the fallback arm, `key => return Err(..UnknownOption(key.to_string()))`
param_unknown(st, key) == [st |-> st, res |-> UnknownOption(key)]

\* fn param(&mut self, key: &str, value: &str) -> Result<(), Error>
param(st0, h, key0, value0) ==
    Eval({IF key = S("user") THEN [st |-> user(st, h, value), res |-> Ok]
          ELSE IF key = S("password") THEN [st |-> password(st, h, value), res |-> Ok]
          ELSE IF key = S("dbname") THEN [st |-> dbname(st, h, value), res |-> Ok]
          ELSE IF key = S("options") THEN [st |-> options(st, h, value), res |-> Ok]
          ELSE IF key = S("application_name") THEN [st |-> application_name(st, h, value), res |-> Ok]
          ELSE IF key = S("host") THEN [st |-> param_host(st, h, Split(value, ",")), res |-> Ok]
          ELSE IF key = S("port") THEN param_port(st, h, Split(value, ","))
          ELSE IF key = S("connect_timeout") THEN param_connect_timeout(st, h, value)
          ELSE IF key = S("keepalives") THEN param_keepalives(st, h, value)
          ELSE IF key = S("keepalives_idle") THEN param_keepalives_idle(st, h, value)
          ELSE IF key = S("target_session_attrs") THEN param_target_session_attrs(st, h, value)
          ELSE param_unknown(st, key) : st \in {st0}, key \in {key0}, value \in {value0}})

(***************************************************************************)
(* The public API called directly: new, clone, drop, the typed setters,    *)
(* and param.                                                              *)
(***************************************************************************)
St == [handles |-> handles, heap |-> heap]

Commit(st) == handles' = st.handles /\ heap' = st.heap

ParserIdle == UNCHANGED <<pc, input, parser, s, chunks, result>>

\* a call made on handle h in state st, with what it returned
Call(op, st, h, key, value, res) ==
    [op |-> op, h |-> h, key |-> key, value |-> value, res |-> res, before |-> View(st, h)]

NoCall == [op |-> "none", h |-> 0, key |-> <<>>, value |-> <<>>, res |-> Ok, before |-> NewInner]

ApiReady == pc = "api" /\ nops < MaxOps

\* the arguments the typed setters are called with
TextVals == {S("a"), S("b")}

HostVals == {S("h"), S("/s"), <<>>}

PathVals == {S("/s"), S("p")}

PortVals == {0, 1234, U16Max}

DurationVals == {0, 10}

\* the (key, value) pairs param is called with
ParamInputs ==
    ({S("user"), S("password"), S("dbname"), S("options"), S("application_name")} \X {S("a")})
    \cup ({S("host")} \X {S("h"), S("/s"), S("h,/s"), <<>>, S("a,,b")})
    \cup ({S("port")} \X {S("1234"), <<>>, S("1234,,5678"), S("1234,abc"), S("abc"), S("65535"),
                          S("65536"), S("-1"), S("0"), S(","), S("+7"), S("1 "), S("abc,1")})
    \cup ({S("connect_timeout"), S("keepalives_idle")} \X {S("10"), S("0"), S("-5"), S("abc"), <<>>, S("+3")})
    \cup ({S("keepalives")} \X {S("0"), S("1"), S("2"), S("-1"), S("x")})
    \cup ({S("target_session_attrs")} \X {S("any"), S("read-write"), S("Any"), <<>>})
    \cup ({S("foo"), S("User"), S("HOST"), <<>>, S("host_path"), S("port ")} \X {S("1")})

\* Config::new()
New(h) ==
    /\ ApiReady
    /\ ~Live(handles, h)
    /\ LET c == FreeCell(St)
       IN  /\ handles' = [handles EXCEPT ![h] = c]
           /\ heap' = [heap EXCEPT ![c] = <<NewInner>>]
    /\ last' = NoCall
    /\ nops' = nops + 1
    /\ ParserIdle

\* #[derive(Clone)]: Arc::clone, the new handle shares the allocation
Clone(h, h2) ==
    /\ ApiReady
    /\ Live(handles, h)
    /\ ~Live(handles, h2)
    /\ handles' = [handles EXCEPT ![h2] = handles[h]]
    /\ heap' = heap
    /\ last' = NoCall
    /\ nops' = nops + 1
    /\ ParserIdle

\* drop of a Config: the allocation is freed with its last handle
Drop(h) ==
    /\ ApiReady
    /\ Live(handles, h)
    /\ handles' = [handles EXCEPT ![h] = NoCell]
    /\ heap' = IF StrongCount(handles, handles[h]) = 1 THEN [heap EXCEPT ![handles[h]] = <<>>] ELSE heap
    /\ last' = NoCall
    /\ nops' = nops + 1
    /\ ParserIdle

Setter(op, h, st) ==
    /\ Commit(st)
    /\ last' = Call(op, St, h, <<>>, <<>>, Ok)
    /\ nops' = nops + 1
    /\ ParserIdle

User(h) == ApiReady /\ Live(handles, h) /\ \E v \in TextVals : Setter("user", h, user(St, h, v))

Password(h) == ApiReady /\ Live(handles, h) /\ \E v \in TextVals : Setter("password", h, password(St, h, v))

Dbname(h) == ApiReady /\ Live(handles, h) /\ \E v \in TextVals : Setter("dbname", h, dbname(St, h, v))

Options(h) == ApiReady /\ Live(handles, h) /\ \E v \in TextVals : Setter("options", h, options(St, h, v))

ApplicationName(h) == ApiReady /\ Live(handles, h) /\ \E v \in TextVals : Setter("application_name", h, application_name(St, h, v))

Host(h) == ApiReady /\ Live(handles, h) /\ \E v \in HostVals : Setter("host", h, host(St, h, v))

HostPath(h) == ApiReady /\ Live(handles, h) /\ \E v \in PathVals : Setter("host_path", h, host_path(St, h, v))

Port(h) == ApiReady /\ Live(handles, h) /\ \E v \in PortVals : Setter("port", h, port(St, h, v))

ConnectTimeout(h) == ApiReady /\ Live(handles, h) /\ \E v \in DurationVals : Setter("connect_timeout", h, connect_timeout(St, h, v))

Keepalives(h) == ApiReady /\ Live(handles, h) /\ \E v \in BOOLEAN : Setter("keepalives", h, keepalives(St, h, v))

KeepalivesIdle(h) == ApiReady /\ Live(handles, h) /\ \E v \in DurationVals : Setter("keepalives_idle", h, keepalives_idle(St, h, v))

TargetSessionAttrs(h) == ApiReady /\ Live(handles, h) /\ \E v \in {"Any", "ReadWrite"} : Setter("target_session_attrs", h, target_session_attrs(St, h, v))

Param(h) ==
    /\ ApiReady
    /\ Live(handles, h)
    /\ \E kv \in ParamInputs :
         \E r \in {param(St, h, kv[1], kv[2])} :
             /\ Commit(r.st)
             /\ last' = Call("param", St, h, kv[1], kv[2], r.res)
    /\ nops' = nops + 1
    /\ ParserIdle

InitApi ==
    /\ handles = [h \in Handles |-> IF h = 1 THEN 1 ELSE NoCell]
    /\ heap = [c \in Cells |-> IF c = 1 THEN <<NewInner>> ELSE <<>>]
    /\ pc = "api"
    /\ input = <<>>
    /\ parser = "None"
    /\ s = <<>>
    /\ chunks = <<>>
    /\ result = None
    /\ last = NoCall
    /\ nops = 0

NextApi ==
    \E h \in Handles :
        \/ New(h)
        \/ \E h2 \in Handles : Clone(h, h2)
        \/ Drop(h)
        \/ User(h)
        \/ Password(h)
        \/ Dbname(h)
        \/ Options(h)
        \/ ApplicationName(h)
        \/ Host(h)
        \/ HostPath(h)
        \/ Port(h)
        \/ ConnectTimeout(h)
        \/ Keepalives(h)
        \/ KeepalivesIdle(h)
        \/ TargetSessionAttrs(h)
        \/ Param(h)

SpecApi == InitApi /\ [][NextApi]_vars
(***************************************************************************)
(* UrlParser.                                                              *)
(***************************************************************************)
\* the handle of the Config a parser builds (UrlParser.config, `config` in Parser::parse)
ParserConfig == 1

RECURSIVE trim_start_spaces(_)
\* str::trim_start_matches(' ')
trim_start_spaces(str) ==
    IF str # <<>> /\ str[1] = " " THEN trim_start_spaces(Tail(str)) ELSE str

\* faulty variant of remove_url_prefix: leading spaces are trimmed before the test
remove_url_prefix_trimmed(str) ==
    Eval({IF StartsWith(t, S("postgres://")) THEN Some(SliceFrom(t, Len(S("postgres://"))))
          ELSE IF StartsWith(t, S("postgresql://")) THEN Some(SliceFrom(t, Len(S("postgresql://"))))
          ELSE None : t \in {trim_start_spaces(str)}})

\* fn remove_url_prefix(s: &str) -> Option<&str>
remove_url_prefix(str) ==
    IF StartsWith(str, S("postgres://")) THEN Some(SliceFrom(str, Len(S("postgres://"))))
    ELSE IF StartsWith(str, S("postgresql://")) THEN Some(SliceFrom(str, Len(S("postgresql://"))))
    ELSE None

\* faulty variant of take_until: the rest starts after the delimiter, which the
\* callers then skip a second time
take_until_past(str, end) ==
    Eval({IF pos = -1 THEN [found |-> FALSE, head |-> <<>>, tail |-> str]
          ELSE [found |-> TRUE, head |-> SubSeq(str, 1, pos), tail |-> SubSeq(str, pos + 2, Len(str))] :
          pos \in {Find(str, end)}})

\* fn take_until(&mut self, end: &[char]) -> Option<&'a str>
take_until(str, end) ==
    Eval({IF pos = -1 THEN [found |-> FALSE, head |-> <<>>, tail |-> str]
          ELSE [found |-> TRUE, head |-> SubSeq(str, 1, pos), tail |-> SubSeq(str, pos + 1, Len(str))] :
          pos \in {Find(str, end)}})

\* fn eat_byte(&mut self): self.s = &self.s[1..]
eat_byte(str) == SliceFrom(str, 1)

\* fn decode(&self, s) -> Result<Cow<str>, Error>: percent_decode(..).decode_utf8()
decode(str) ==
    Eval({IF IsUtf8(b) THEN [ok |-> TRUE, v |-> b] ELSE [ok |-> FALSE, v |-> <<>>] : b \in {percent_decode(str)}})

\* what a step of a parser leaves: the Config state, the remaining text, Ok or the
\* error, and the last call it made on the Config
Step(st, str, res, call) == [st |-> st, s |-> str, res |-> res, last |-> call]

\* fn parse_credentials(&mut self) -> Result<(), Error>
parse_credentials(st, str, call) ==
    Eval({IF ~t.found THEN Step(st, str, Ok, call)
          ELSE Eval({IF rest = Panic THEN Step(st, str, Panicked, call)
                     ELSE IF ~u.ok THEN Step(st, rest, DecodeError, call)
                     ELSE Eval({IF Len(it) = 2
                                THEN Eval({Step(password(st1, ParserConfig, pw), rest, Ok,
                                                Call("password", st1, ParserConfig, <<>>, pw, Ok)) :
                                           pw \in {percent_decode(it[2])}})
                                ELSE Step(st1, rest, Ok, Call("user", st, ParserConfig, <<>>, u.v, Ok)) :
                                st1 \in {user(st, ParserConfig, u.v)}}) :
                     rest \in {eat_byte(t.tail)},
                     it \in {SplitN2(t.head, ":")},
                     u \in {decode(SplitN2(t.head, ":")[1])}}) :
          t \in {take_until(str, {"@"})}})

\* fn host_param(&mut self, s: &str) -> Result<(), Error>  (runtime, unix)
host_param(st, str, call) ==
    Eval({IF decoded # <<>> /\ decoded[1] = "/"
          THEN Step(host_path(st, ParserConfig, decoded), <<>>, Ok, Call("host_path", st, ParserConfig, <<>>, decoded, Ok))
          ELSE IF ~IsUtf8(decoded) THEN Step(st, <<>>, DecodeError, call)
          ELSE Step(host(st, ParserConfig, decoded), <<>>, Ok, Call("host", st, ParserConfig, <<>>, decoded, Ok)) :
          decoded \in {percent_decode(str)}})

\* parse_host, up to its loop: the host section is taken from the text
host_section(str) ==
    Eval({IF t.found THEN [host |-> t.head, s |-> t.tail] ELSE [host |-> str, s |-> <<>>] :
          t \in {take_until(str, {"/", "?"})}})

\* parse_host: the split of a chunk that starts with `[` into (host, port)
chunk_bracketed(chunk) ==
    Eval({IF idx = -1 THEN [res |-> InvalidValue("host"), host |-> <<>>, port |-> None]
          ELSE Eval({IF hst = Panic \/ remaining = Panic THEN [res |-> Panicked, host |-> <<>>, port |-> None]
                     ELSE IF StartsWith(remaining, <<":">>) THEN [res |-> Ok, host |-> hst, port |-> Some(SliceFrom(remaining, 1))]
                     ELSE IF remaining = <<>> THEN [res |-> Ok, host |-> hst, port |-> None]
                     ELSE [res |-> InvalidValue("host"), host |-> <<>>, port |-> None] :
                     hst \in {Slice(chunk, 1, idx)}, remaining \in {SliceFrom(chunk, idx + 1)}}) :
          idx \in {Find(chunk, {"]"})}})

\* parse_host: the split of one chunk into (host, port); port is None or Some(text)
chunk_host_port(chunk) ==
    IF StartsWith(chunk, <<"[">>) THEN chunk_bracketed(chunk)
    ELSE Eval({[res |-> Ok, host |-> it[1], port |-> IF Len(it) = 2 THEN Some(it[2]) ELSE None] :
               it \in {SplitN2(chunk, ":")}})

\* parse_host: `self.config.param("port", &self.decode(port.unwrap_or("5432"))?)?`
chunk_port(h1, prt_text) ==
    Eval({IF ~prt.ok THEN Step(h1.st, <<>>, DecodeError, h1.last)
          ELSE Eval({Step(r.st, <<>>, r.res, Call("param", h1.st, ParserConfig, S("port"), prt.v, r.res)) :
                     r \in {param(h1.st, ParserConfig, S("port"), prt.v)}}) :
          prt \in {decode(IF prt_text = None THEN S("5432") ELSE prt_text[1])}})

\* parse_host: one iteration of `for chunk in host.split(',')`
parse_host_chunk(st, chunk, call) ==
    Eval({IF hp.res # Ok THEN Step(st, <<>>, hp.res, call)
          ELSE Eval({IF h1.res # Ok THEN h1 ELSE chunk_port(h1, hp.port) :
                     h1 \in {host_param(st, hp.host, call)}}) :
          hp \in {chunk_host_port(chunk)}})

\* fn parse_path(&mut self) -> Result<(), Error>
parse_path(st, str, call) ==
    IF ~StartsWith(str, <<"/">>) THEN Step(st, str, Ok, call)
    ELSE Eval({IF rest = Panic THEN Step(st, str, Panicked, call)
               ELSE Eval({IF name = <<>> THEN Step(st, after, Ok, call)
                          ELSE Eval({IF ~d.ok THEN Step(st, after, DecodeError, call)
                                     ELSE Step(dbname(st, ParserConfig, d.v), after, Ok,
                                               Call("dbname", st, ParserConfig, <<>>, d.v, Ok)) :
                                     d \in {decode(name)}}) :
                          name \in {IF t.found THEN t.head ELSE rest},
                          after \in {IF t.found THEN t.tail ELSE <<>>}}) :
               rest \in {eat_byte(str)}, t \in {take_until(eat_byte(str), {"?"})}})

\* faulty variant of pair_apply: `host` is applied through param like any other key
pair_apply_plain(st, key, val, rest, call) ==
    Eval({IF ~v.ok THEN Step(st, rest, DecodeError, call)
          ELSE Eval({Step(r.st, rest, r.res, Call("param", st, ParserConfig, key, v.v, r.res)) :
                     r \in {param(st, ParserConfig, key, v.v)}}) :
          v \in {decode(val)}})

\* parse_params: the value of a pair is applied to its decoded key
pair_apply(st, key, val, rest, call) ==
    IF key = S("host")
    THEN Eval({Step(hp.st, rest, hp.res, hp.last) : hp \in {host_param(st, val, call)}})
    ELSE Eval({IF ~v.ok THEN Step(st, rest, DecodeError, call)
               ELSE Eval({Step(r.st, rest, r.res, Call("param", st, ParserConfig, key, v.v, r.res)) :
                          r \in {param(st, ParserConfig, key, v.v)}}) :
               v \in {decode(val)}})

\* faulty variant of the iteration of parse_params: text without `=` is skipped
parse_params_pair_lenient(st, str, call) ==
    Eval({IF ~tk.found THEN Step(st, <<>>, Ok, call)
          ELSE Eval({IF ~key.ok THEN Step(st, tk.tail, DecodeError, call)
                     ELSE IF s1 = Panic THEN Step(st, str, Panicked, call)
                     ELSE Eval({IF tv.found
                                THEN (IF eat_byte(tv.tail) = Panic THEN Step(st, str, Panicked, call)
                                      ELSE pair_apply(st, key.v, tv.head, eat_byte(tv.tail), call))
                                ELSE pair_apply(st, key.v, s1, <<>>, call) :
                                tv \in {take_until(s1, {"&"})}}) :
                     key \in {decode(tk.head)}, s1 \in {eat_byte(tk.tail)}}) :
          tk \in {take_until(str, {"="})}})

\* parse_params: one iteration of `while !self.s.is_empty()`
parse_params_pair(st, str, call) ==
    Eval({IF ~tk.found THEN Step(st, str, SyntaxError("unterminated parameter", <<>>, -1), call)
          ELSE Eval({IF ~key.ok THEN Step(st, tk.tail, DecodeError, call)
                     ELSE IF s1 = Panic THEN Step(st, str, Panicked, call)
                     ELSE Eval({IF tv.found
                                THEN (IF eat_byte(tv.tail) = Panic THEN Step(st, str, Panicked, call)
                                      ELSE pair_apply(st, key.v, tv.head, eat_byte(tv.tail), call))
                                ELSE pair_apply(st, key.v, s1, <<>>, call) :
                                tv \in {take_until(s1, {"&"})}}) :
                     key \in {decode(tk.head)}, s1 \in {eat_byte(tk.tail)}}) :
          tk \in {take_until(str, {"="})}})

(***************************************************************************)
(* Parser: the key/value grammar.  `it` is a peekable iterator over the    *)
(* chars of the input; what it has not consumed yet is a suffix of the     *)
(* input, and a char is the sequence of its bytes.                         *)
(***************************************************************************)
\* the UTF-8 encoding of a code point below 0x10000
Encode(cp) ==
    IF cp < 128 THEN <<Byte(cp)>>
    ELSE IF cp < 2048 THEN <<Byte(192 + (cp \div 64)), Byte(128 + (cp % 64))>>
    ELSE <<Byte(224 + (cp \div 4096)), Byte(128 + ((cp \div 64) % 64)), Byte(128 + (cp % 64))>>

\* char::is_whitespace: the code points with the White_Space property
WhiteSpace ==
    {Encode(cp) : cp \in (9..13) \cup {32, 133, 160, 5760} \cup (8192..8202) \cup {8232, 8233, 8239, 8287, 12288}}

is_whitespace(c) == c \in WhiteSpace

\* it.peek(): the next char, <<>> at the end of the input
Peek(str) == IF str = <<>> THEN <<>> ELSE SubSeq(str, 1, Utf8Width(str))

\* what is left after it.next()
Advance(str) == IF str = <<>> THEN <<>> ELSE SubSeq(str, Utf8Width(str) + 1, Len(str))

RECURSIVE SkipWs(_)
\* fn skip_ws(&mut self): take_while(|c| c.is_whitespace())
SkipWs(str0) ==
    Eval({IF str # <<>> /\ is_whitespace(Peek(str)) THEN SkipWs(Advance(str)) ELSE str : str \in {str0}})

RECURSIVE KeywordEnd(_)
\* keyword's take_while: stops at whitespace, at `=` and at the end of the input
KeywordEnd(str0) ==
    Eval({IF str # <<>> /\ ~is_whitespace(Peek(str)) /\ Peek(str) # <<"=">> THEN KeywordEnd(Advance(str)) ELSE str :
          str \in {str0}})

\* fn keyword(&mut self) -> Option<&'a str>
keyword(str) ==
    Eval({[s |-> rest, kw |-> IF Len(rest) = Len(str) THEN None ELSE Some(SubSeq(str, 1, Len(str) - Len(rest)))] :
          rest \in {KeywordEnd(str)}})

\* fn eat(&mut self, target: char) -> Result<(), Error>; `at` is the byte offset of str
eat(str, target, at) ==
    IF str = <<>> THEN [s |-> str, res |-> SyntaxError("unexpected EOF", <<>>, -1)]
    ELSE IF Peek(str) = target THEN [s |-> Advance(str), res |-> Ok]
    ELSE [s |-> Advance(str), res |-> SyntaxError("unexpected character", Peek(str), at)]

RECURSIVE simple_value_loop_raw(_, _)
\* faulty variant of the loop of simple_value: `\` is pushed like any other char
simple_value_loop_raw(str0, value0) ==
    Eval({IF str = <<>> \/ is_whitespace(c) THEN [s |-> str, value |-> val]
          ELSE simple_value_loop_raw(Advance(str), val \o c) :
          str \in {str0}, val \in {value0}, c \in {Peek(str0)}})

RECURSIVE simple_value_loop(_, _)
\* the loop of simple_value: up to whitespace, `\` dropped and the next char taken
simple_value_loop(str0, value0) ==
    Eval({IF str = <<>> \/ is_whitespace(c) THEN [s |-> str, value |-> val]
          ELSE IF c = <<"\\">>
               THEN Eval({IF r = <<>> THEN simple_value_loop(r, val)
                          ELSE simple_value_loop(Advance(r), val \o Peek(r)) : r \in {Advance(str)}})
               ELSE simple_value_loop(Advance(str), val \o c) :
          str \in {str0}, val \in {value0}, c \in {Peek(str0)}})

\* fn simple_value(&mut self) -> Result<String, Error>
simple_value(str) ==
    Eval({IF r.value = <<>> THEN [s |-> r.s, value |-> <<>>, res |-> SyntaxError("unexpected EOF", <<>>, -1)]
          ELSE [s |-> r.s, value |-> r.value, res |-> Ok] : r \in {simple_value_loop(str, <<>>)}})

RECURSIVE quoted_value(_, _)
\* fn quoted_value(&mut self) -> Result<String, Error>: up to a `'`, which is left
quoted_value(str0, value0) ==
    Eval({IF str = <<>>
          THEN [s |-> str, value |-> val, res |-> SyntaxError("unterminated quoted connection parameter value", <<>>, -1)]
          ELSE IF c = <<"'">> THEN [s |-> str, value |-> val, res |-> Ok]
          ELSE IF c = <<"\\">>
               THEN Eval({IF r = <<>> THEN quoted_value(r, val)
                          ELSE quoted_value(Advance(r), val \o Peek(r)) : r \in {Advance(str)}})
               ELSE quoted_value(Advance(str), val \o c) :
          str \in {str0}, val \in {value0}, c \in {Peek(str0)}})

\* fn value(&mut self) -> Result<String, Error>; `at` is the byte offset of str
value(str, at) ==
    IF str # <<>> /\ Peek(str) = <<"'">>
    THEN Eval({IF q.res # Ok THEN q
               ELSE Eval({[s |-> e.s, value |-> q.value, res |-> e.res] :
                          e \in {eat(q.s, <<"'">>, at + Len(str) - Len(q.s))}}) :
               q \in {quoted_value(Advance(str), <<>>)}})
    ELSE simple_value(str)

\* parameter, after the keyword: `=` between optional whitespace, then the value
parameter_value(kw, str, at) ==
    Eval({IF e.res # Ok THEN [s |-> e.s, res |-> e.res, pair |-> None]
          ELSE Eval({IF v.res # Ok THEN [s |-> v.s, res |-> v.res, pair |-> None]
                     ELSE [s |-> v.s, res |-> Ok, pair |-> Some(<<kw, v.value>>)] :
                     v \in {Eval({value(s3, at + Len(str) - Len(s3)) : s3 \in {SkipWs(e.s)}})}}) :
          e \in {Eval({eat(s2, <<"=">>, at + Len(str) - Len(s2)) : s2 \in {SkipWs(str)}})}})

\* fn parameter(&mut self) -> Result<Option<(&'a str, String)>, Error>; `at` is the
\* byte offset of str
parameter(str, at) ==
    Eval({IF k.kw = None THEN [s |-> k.s, res |-> Ok, pair |-> None]
          ELSE parameter_value(k.kw[1], k.s, at + Len(str) - Len(k.s)) :
          k \in {Eval({keyword(s1) : s1 \in {SkipWs(str)}})}})

(***************************************************************************)
(* from_str, step by step.                                                 *)
(***************************************************************************)
RECURSIVE Join(_, _)
\* the texts of a sequence, with sep between them
Join(parts, sep) ==
    IF parts = <<>> THEN <<>>
    ELSE IF Len(parts) = 1 THEN parts[1]
    ELSE parts[1] \o sep \o Join(Tail(parts), sep)

\* the sequences of at most n elements of set
SeqUpTo(set, n) == UNION {[1..k -> set] : k \in 0..n}

EAcute == Encode(233)

\* credentials sections of the URLs
Creds == {<<>>, S("u@"), S("u:p@"), S("u:p:q@"), S("%FF@"), S("u:%FF@"), EAcute \o S("@"), S("%75:%70@")}

\* host tokens of the URLs
HostTokens ==
    {<<>>, S("h"), S("h:1234"), S("h:"), S("[::1]"), S("[::1]:5678"), S("[::1"), S("[a]b"),
     S("%2Fs"), S("h:1%2C2"), S("h:abc"), S("%FF"), EAcute, S("[") \o EAcute \o S("]:1")}

HostSections == {Join(ts, <<",">>) : ts \in SeqUpTo(HostTokens, MaxHostTokens)}

\* path sections of the URLs
Paths == {<<>>, S("/"), S("/db"), S("/d@b"), S("/%FF"), S("/") \o EAcute}

\* key=value pairs of the URL queries
Pairs ==
    {S("user=u"), S("host=/s"), S("host=a,b"), S("host=%FF"), S("foo=bar"), S("user"), S("port=1,2"),
     S("password=p@ss"), S("connect_timeout=0"), S("host=%2F%FF"), S("%68ost=h"), S("=") , EAcute \o S("=") \o EAcute}

Queries ==
    {<<>>} \cup {S("?") \o Join(ps, <<"&">>) : ps \in SeqUpTo(Pairs, MaxPairs)}
    \cup {S("?") \o Join(ps, <<"&">>) \o S("&") : ps \in SeqUpTo(Pairs, 1)}

\* the texts after the URL prefix: each section is varied with the others few
UrlBodies ==
    {b[1] \o b[2] \o b[3] \o b[4] :
        b \in (Creds \X {<<>>, S("h")} \X {<<>>, S("/db")} \X {<<>>, S("?user=v")})
              \cup ({<<>>, S("u@")} \X HostSections \X {<<>>, S("/db")} \X {<<>>})
              \cup ({<<>>, S("u@")} \X {<<>>, S("h")} \X Paths \X Queries)}

UrlInputs == {pre \o b : pre \in {S("postgres://"), S("postgresql://")}, b \in UrlBodies}

\* `keyword = value` texts of the key/value strings
ParamTexts ==
    {S("user=a"), S("host=h,/s"), S("port=1234,,5678"), S("port=1234,abc"), S("foo=bar"),
     S("connect_timeout=10"), S("connect_timeout=0"), S("user='a b'"), S("user='abc"), S("user="),
     S("user"), S("=b"), S("user = a"), S("user=a\\ b"), S("user=a\\"), S("user='a\\''"),
     S("User=a"), EAcute \o S("=") \o EAcute, S("user=") \o EAcute, S("user") \o Encode(160) \o S("=a"),
     S("keepalives=0"), S("user=''"), S("user='a\\\\'"), S("user=\\\\b"), S("user=\\"), S("user='a\\")}

KvInputs ==
    {Join(ps, <<" ">>) : ps \in SeqUpTo(ParamTexts, MaxParams)}
    \cup {S("Postgres://u@h"), S(" postgres://h"), S("postgres:/h"), S("postgresql:/h"), S("POSTGRESQL://h"),
          S("postgres:// host=h"), S(" postgresql://h?user=u"), S("postgres"), S(" "), S("x postgres://h")}

Inputs == UrlInputs \cup KvInputs

\* the Config is dropped and from_str returns the error
Fail(res) ==
    /\ handles' = [h \in Handles |-> NoCell]
    /\ heap' = [c \in Cells |-> <<>>]
    /\ pc' = "done"
    /\ result' = Some(res)

\* a step of a parser ended Ok: its effect on the Config stays and parsing goes on at `next`
Continue(r, next) ==
    /\ Commit(r.st)
    /\ pc' = next
    /\ result' = result

\* fn from_str(s: &str) -> Result<Config, Error>, up to the choice of the parser;
\* either parser starts from Config::new()
FromStr ==
    /\ pc = "from_str"
    /\ \E rest \in {remove_url_prefix(input)} :
           IF rest = None
           THEN parser' = "Parser" /\ s' = input /\ pc' = "parameter" /\ result' = result
                /\ handles' = [handles EXCEPT ![ParserConfig] = 1]
                /\ heap' = [heap EXCEPT ![1] = <<NewInner>>]
           ELSE IF rest[1] = Panic
           THEN parser' = "UrlParser" /\ s' = s /\ Fail(Panicked)
           ELSE parser' = "UrlParser" /\ s' = rest[1] /\ pc' = "parse_credentials" /\ result' = result
                /\ handles' = [handles EXCEPT ![ParserConfig] = 1]
                /\ heap' = [heap EXCEPT ![1] = <<NewInner>>]
    /\ UNCHANGED <<input, chunks, last, nops>>

\* one step of UrlParser::parse or Parser::parse: r is what the step leaves
ParserStep(r, next) ==
    /\ s' = r.s
    /\ last' = r.last
    /\ IF r.res = Ok THEN Continue(r, next) ELSE Fail(r.res)
    /\ UNCHANGED <<input, parser, nops>>

ParseCredentials ==
    /\ pc = "parse_credentials"
    /\ \E r \in {parse_credentials(St, s, last)} : ParserStep(r, "parse_host")
    /\ chunks' = chunks

\* parse_host up to its loop; an empty host section returns at once
ParseHost ==
    /\ pc = "parse_host"
    /\ \E hs \in {host_section(s)} :
           /\ s' = hs.s
           /\ chunks' = IF hs.host = <<>> THEN <<>> ELSE Split(hs.host, ",")
           /\ pc' = IF hs.host = <<>> THEN "parse_path" ELSE "parse_host_chunk"
    /\ UNCHANGED <<handles, heap, input, parser, result, last, nops>>

ParseHostChunk ==
    /\ pc = "parse_host_chunk"
    /\ \E r \in {parse_host_chunk(St, Head(chunks), last)} :
           ParserStep([r EXCEPT !.s = s], IF Len(chunks) = 1 THEN "parse_path" ELSE "parse_host_chunk")
    /\ chunks' = Tail(chunks)

ParsePath ==
    /\ pc = "parse_path"
    /\ \E r \in {parse_path(St, s, last)} : ParserStep(r, "parse_params")
    /\ chunks' = chunks

\* fn parse_params, up to its loop: without a `?` it returns at once
ParseParams ==
    /\ pc = "parse_params"
    /\ IF ~StartsWith(s, <<"?">>) THEN ParserStep(Step(St, s, Ok, last), "return")
       ELSE IF eat_byte(s) = Panic THEN ParserStep(Step(St, s, Panicked, last), "return")
       ELSE ParserStep(Step(St, eat_byte(s), Ok, last), "parse_params_pair")
    /\ chunks' = chunks

ParseParamsPair ==
    /\ pc = "parse_params_pair"
    /\ IF s = <<>> THEN ParserStep(Step(St, s, Ok, last), "return")
       ELSE \E r \in {parse_params_pair(St, s, last)} : ParserStep(r, "parse_params_pair")
    /\ chunks' = chunks

\* Parser::parse: one iteration of `while let Some((key, value)) = parser.parameter()?`
Parameter ==
    /\ pc = "parameter"
    /\ \E p \in {parameter(s, Len(input) - Len(s))} :
           IF p.res # Ok THEN ParserStep(Step(St, p.s, p.res, last), "return")
           ELSE IF p.pair = None THEN ParserStep(Step(St, p.s, Ok, last), "return")
           ELSE \E r \in {param(St, ParserConfig, p.pair[1][1], p.pair[1][2])} :
                    ParserStep(Step(r.st, p.s, r.res, Call("param", St, ParserConfig, p.pair[1][1], p.pair[1][2], r.res)), "parameter")
    /\ chunks' = chunks

\* Ok(config): from_str returns the Config the parser built
Return ==
    /\ pc = "return"
    /\ pc' = "done"
    /\ result' = Some(Ok)
    /\ UNCHANGED <<handles, heap, input, parser, s, chunks, last, nops>>

InitParse ==
    /\ handles = [h \in Handles |-> NoCell]
    /\ heap = [c \in Cells |-> <<>>]
    /\ pc = "from_str"
    /\ input \in Inputs
    /\ parser = "None"
    /\ s = <<>>
    /\ chunks = <<>>
    /\ result = None
    /\ last = NoCall
    /\ nops = 0

NextParse ==
    \/ FromStr
    \/ ParseCredentials
    \/ ParseHost
    \/ ParseHostChunk
    \/ ParsePath
    \/ ParseParams
    \/ ParseParamsPair
    \/ Parameter
    \/ Return

SpecParse == InitParse /\ [][NextParse]_vars

Init == InitApi \/ InitParse

Next == NextApi \/ NextParse

Spec == Init /\ [][Next]_vars

(***************************************************************************)
(* The properties.                                                         *)
(***************************************************************************)
\* a is a prefix of b
IsPrefix(a, b) == Len(a) <= Len(b) /\ SubSeq(b, 1, Len(a)) = a

\* what b has after its first Len(a) entries
Appended(a, b) == SubSeq(b, Len(a) + 1, Len(b))

\* the Inner handle h observes after the step
ViewAfter(h) == View([handles |-> handles', heap |-> heap'], h)

\* the handle the last call was made on still exists
LastLive == last.h \in Handles /\ Live(handles, last.h)

\* the Inner the handle of the last call observes now
LastView == View(St, last.h)

IsDigits(ds) == ds # <<>> /\ \A i \in 1..Len(ds) : IsDigit(ds[i])

RECURSIVE DecimalValue(_)
\* the number a text of decimal digits denotes
DecimalValue(ds) ==
    IF ds = <<>> THEN 0
    ELSE 10 * DecimalValue(SubSeq(ds, 1, Len(ds) - 1)) + (CodeOf[ds[Len(ds)]] - 48)

\* the digits of an unsigned integer text (a leading `+` is allowed)
UnsignedDigits(c) == IF c # <<>> /\ c[1] = "+" THEN Tail(c) ELSE c

\* c is the text of an unsigned 16-bit integer
IsU16Text(c) == IsDigits(UnsignedDigits(c)) /\ DecimalValue(UnsignedDigits(c)) <= U16Max

\* the digits of a signed integer text
SignedDigits(c) == IF c # <<>> /\ c[1] \in {"+", "-"} THEN Tail(c) ELSE c

\* c is the text of a signed integer
IsSignedText(c) == IsDigits(SignedDigits(c))

SignedValue(c) ==
    IF c[1] = "-" THEN 0 - DecimalValue(SignedDigits(c)) ELSE DecimalValue(SignedDigits(c))

\* the host a component of a host list stands for
HostOf(c) == IF c # <<>> /\ c[1] = "/" THEN Unix(c) ELSE Tcp(c)

\* the port a component of a port list stands for
PortOf(c) == IF c = <<>> THEN DefaultPort ELSE DecimalValue(UnsignedDigits(c))

PortComponentOk(c) == c = <<>> \/ IsU16Text(c)

\* the keys param knows
KnownKeys ==
    {S("user"), S("password"), S("dbname"), S("options"), S("application_name"), S("host"),
     S("port"), S("connect_timeout"), S("keepalives"), S("keepalives_idle"),
     S("target_session_attrs")}

\* the input begins with exactly one of the two URL prefixes
HasUrlPrefix == StartsWith(input, S("postgres://")) \/ StartsWith(input, S("postgresql://"))

\* the text of a URL input after its prefix
UrlBody ==
    IF StartsWith(input, S("postgres://")) THEN SubSeq(input, Len(S("postgres://")) + 1, Len(input))
    ELSE SubSeq(input, Len(S("postgresql://")) + 1, Len(input))

\* the positions of UrlParser::parse
UrlPcs ==
    {"parse_credentials", "parse_host", "parse_host_chunk", "parse_path", "parse_params",
     "parse_params_pair"}

\* C1: copy-on-write isolation.  A step in which a setter or param is called on
\* one handle leaves the Inner observed through every other handle exactly as it
\* was; clone, new and drop change what no remaining handle observes.
C1_CopyOnWriteIsolation ==
    [][\A h \in Handles :
           Live(handles, h) /\ Live(handles', h) /\ h # last'.h => ViewAfter(h) = View(St, h)]_vars

\* C1, its case: two handles, a call made on the first changed what it observes,
\* and the second still observes what the first observed before the call.
C1_Witness ==
    \E h1, h2 \in Handles :
        /\ h1 # h2 /\ Live(handles, h1) /\ Live(handles, h2)
        /\ last.op # "none" /\ last.h = h1
        /\ handles[h1] # handles[h2]
        /\ View(St, h2) = last.before
        /\ View(St, h1) # last.before

\* C2: atomic-per-key apply.  After a param call that returned an error the
\* configuration is field for field what it was before the call.
C2_AtomicPerKey ==
    last.op = "param" /\ last.res.kind = "Err" /\ LastLive => LastView = last.before

\* C3: hosts and ports are append-only.  Across every step, of the setters, of
\* param (failing or not) and of either parser, the hosts before the step are a
\* prefix of the hosts after it, and so for the ports; and what a param call on
\* `host` or `port` appended are its components, in the order of the value.
C3_AppendOnly ==
    /\ [][\A h \in Handles :
              Live(handles, h) /\ Live(handles', h) =>
                  /\ IsPrefix(View(St, h).host, ViewAfter(h).host)
                  /\ IsPrefix(View(St, h).port, ViewAfter(h).port)]_vars
    /\ [](last.op = "param" /\ last.key = S("host") /\ LastLive =>
              Appended(last.before.host, LastView.host)
                  = [i \in 1..Len(Split(last.value, ",")) |-> HostOf(Split(last.value, ",")[i])])
    /\ [](last.op = "param" /\ last.key = S("port") /\ LastLive =>
              \A i \in 1..(Len(LastView.port) - Len(last.before.port)) :
                  /\ i <= Len(Split(last.value, ","))
                  /\ LastView.port[Len(last.before.port) + i] = PortOf(Split(last.value, ",")[i]))

\* C3, its case: a configuration that had a host got the two hosts of a
\* two-component value appended.
C3_Witness ==
    /\ last.op = "param" /\ last.key = S("host") /\ last.value = S("h,/s") /\ LastLive
    /\ last.before.host # <<>>
    /\ LastView.host = last.before.host \o <<Tcp(S("h")), Unix(S("/s"))>>

\* the order of the positions of from_str: a step never goes back
PcRank ==
    [from_str |-> 8, parse_credentials |-> 7, parse_host |-> 6, parse_host_chunk |-> 5,
     parse_path |-> 4, parse_params |-> 3, parse_params_pair |-> 2, parameter |-> 2,
     return |-> 1, done |-> 0]

\* what is left to scan: it decreases with every step of from_str
Measure == PcRank[pc] * (2 * Len(input) + 1) + Len(s) + Len(chunks)

\* C4: from_str is total.  Every step of a parse decreases what is left to scan,
\* a parse that has not returned can take a step, and a parse that has returned
\* has yielded either Ok with the configuration or one error without it, never a
\* panic and never both.
C4_FromStrTotal ==
    /\ [][Measure' < Measure]_vars
    /\ [](pc # "done" => result = None /\ ENABLED NextParse)
    /\ [](pc = "done" =>
              /\ result # None
              /\ result[1].kind \in {"Ok", "Err"}
              /\ result[1].kind = "Ok" <=> Live(handles, ParserConfig))

\* C4, its case: a URL with a multi-byte character next to the `@` was parsed
\* to the end and gave a configuration.
C4_Witness ==
    /\ pc = "done"
    /\ input = S("postgres://") \o EAcute \o S("@h")
    /\ result = Some(Ok)
    /\ View(St, ParserConfig).user = Some(EAcute)

\* C5: format selection.  The URL grammar parses the input exactly when it
\* begins with `postgres://` or `postgresql://`; the grammar chosen is never
\* changed, so an error of the URL grammar is the result.
C5_FormatSelection ==
    /\ [](parser # "None" => (parser = "UrlParser" <=> HasUrlPrefix))
    /\ [](pc \in UrlPcs => parser = "UrlParser")
    /\ [](pc = "parameter" => parser = "Parser")
    /\ [][parser # "None" => parser' = parser]_vars

\* C5, its case: the URL grammar failed and that error is what from_str returned.
C5_Witness ==
    /\ pc = "done" /\ parser = "UrlParser" /\ HasUrlPrefix
    /\ result # None /\ result[1].kind = "Err"

\* C6: the port micro-grammar.  param("port", v) succeeds exactly when every
\* non-empty component of v is an unsigned 16-bit integer, and otherwise fails
\* with an invalid-value error naming port; when it succeeds it has appended one
\* port per component in order, 5432 for an empty one.
C6_PortGrammar ==
    last.op = "param" /\ last.key = S("port") =>
        /\ (\A i \in 1..Len(Split(last.value, ",")) : PortComponentOk(Split(last.value, ",")[i]))
               => last.res = Ok
        /\ (\E i \in 1..Len(Split(last.value, ",")) : ~PortComponentOk(Split(last.value, ",")[i]))
               => last.res = InvalidValue("port")
        /\ last.res = Ok /\ LastLive =>
               LastView.port = last.before.port
                   \o [i \in 1..Len(Split(last.value, ",")) |-> PortOf(Split(last.value, ",")[i])]

\* C6, its case: "1234,,5678" appended 1234, 5432 and 5678.
C6_Witness ==
    /\ last.op = "param" /\ last.key = S("port") /\ last.value = S("1234,,5678")
    /\ last.res = Ok /\ LastLive
    /\ Appended(last.before.port, LastView.port) = <<1234, DefaultPort, 5678>>

\* the error param returns for a value of the last call's key that is not valid
LastInvalidValue == [InvalidValue("") EXCEPT !.what = last.key]

\* C7, as the claim states it: a positive integer is set, a non-positive integer
\* succeeds and leaves the configuration with no connect timeout (for
\* keepalives_idle: with the idle time no call has set), and any other text is
\* an invalid value.
C7_NonPositiveClearsTimeout ==
    last.op = "param" /\ last.key \in {S("connect_timeout"), S("keepalives_idle")} =>
        IF ~IsSignedText(last.value) THEN last.res = LastInvalidValue
        ELSE /\ last.res = Ok
             /\ LastLive /\ last.key = S("connect_timeout") =>
                    LastView.connect_timeout
                        = IF SignedValue(last.value) > 0 THEN Some(SignedValue(last.value)) ELSE None
             /\ LastLive /\ last.key = S("keepalives_idle") =>
                    LastView.keepalives_idle
                        = IF SignedValue(last.value) > 0 THEN SignedValue(last.value)
                          ELSE NewInner.keepalives_idle

\* C7, amended: a positive integer is set as the connect timeout (the idle time),
\* a non-positive integer succeeds and leaves the whole configuration, the
\* timeout an earlier call set included, as it was, and any other text is an
\* invalid value.
C7_NonPositiveIgnored ==
    last.op = "param" /\ last.key \in {S("connect_timeout"), S("keepalives_idle")} =>
        IF ~IsSignedText(last.value) THEN last.res = LastInvalidValue
        ELSE /\ last.res = Ok
             /\ LastLive /\ SignedValue(last.value) <= 0 => LastView = last.before
             /\ LastLive /\ SignedValue(last.value) > 0 /\ last.key = S("connect_timeout") =>
                    LastView = [last.before EXCEPT !.connect_timeout = Some(SignedValue(last.value))]
             /\ LastLive /\ SignedValue(last.value) > 0 /\ last.key = S("keepalives_idle") =>
                    LastView = [last.before EXCEPT !.keepalives_idle = SignedValue(last.value)]

\* C7, its case: a connect timeout of 10 seconds was set and a later
\* non-positive connect_timeout succeeded and left it.
C7_Witness ==
    /\ last.op = "param" /\ last.key = S("connect_timeout") /\ last.value \in {S("0"), S("-5")}
    /\ last.res = Ok /\ LastLive
    /\ last.before.connect_timeout = Some(10)
    /\ LastView.connect_timeout = Some(10)

\* C8: unknown option.  param with a key that is not one of the known keys,
\* compared exactly, returns the unknown-option error carrying that key and
\* leaves the configuration as it was; in a parse, from_str then returns that
\* error and no configuration.  A known key never gives that error.
C8_UnknownOption ==
    last.op = "param" =>
        IF last.key \in KnownKeys THEN last.res.error # "UnknownOption"
        ELSE /\ last.res = UnknownOption(last.key)
             /\ pc = "api" => LastLive /\ LastView = last.before
             /\ pc # "api" =>
                    /\ pc = "done"
                    /\ result = Some(UnknownOption(last.key))
                    /\ \A h \in Handles : ~Live(handles, h)

\* C8, its case: a URL whose query set the user and then gave the key foo
\* failed with the unknown-option error for foo.
C8_Witness ==
    /\ pc = "done" /\ parser = "UrlParser"
    /\ last.op = "param" /\ last.key = S("foo")
    /\ last.before.user # None
    /\ result = Some(UnknownOption(S("foo")))

\* C9: one port per host token.  Between the tokens of the host section of a URL
\* and after the last one, the configuration has as many ports as hosts, and the
\* port of a token was applied as one port.
C9_OnePortPerToken ==
    parser = "UrlParser" /\ pc \in {"parse_host_chunk", "parse_path"} =>
        /\ Len(View(St, ParserConfig).port) = Len(View(St, ParserConfig).host)
        /\ last.op = "param" /\ last.key = S("port") =>
               Len(View(St, ParserConfig).port) = Len(last.before.port) + 1

\* C10: URL credentials.  Once the credentials are parsed: if the text after the
\* prefix has no `@`, nothing was consumed and neither user nor password is set;
\* if it has, the text before the first `@` lies before the host list, the path
\* and the query (it has no `/` and no `?`), the text after that `@` is what is
\* left, the user is its percent-decoded part before the first `:` and the
\* password, when there is a `:`, the percent-decoded part after it.
C10_Credentials ==
    parser = "UrlParser" /\ pc = "parse_host" =>
        IF Find(UrlBody, {"@"}) = -1
        THEN /\ s = UrlBody
             /\ View(St, ParserConfig).user = None
             /\ View(St, ParserConfig).password = None
        ELSE /\ Find(SubSeq(UrlBody, 1, Find(UrlBody, {"@"})), {"/", "?"}) = -1
             /\ s = SubSeq(UrlBody, Find(UrlBody, {"@"}) + 2, Len(UrlBody))
             /\ View(St, ParserConfig).user
                    = Some(percent_decode(SplitN2(SubSeq(UrlBody, 1, Find(UrlBody, {"@"})), ":")[1]))
             /\ View(St, ParserConfig).password
                    = IF Len(SplitN2(SubSeq(UrlBody, 1, Find(UrlBody, {"@"})), ":")) = 2
                      THEN Some(percent_decode(SplitN2(SubSeq(UrlBody, 1, Find(UrlBody, {"@"})), ":")[2]))
                      ELSE None

\* C11: key/value parsing succeeds only at the end of the input.  When
\* Parser::parse has returned a configuration nothing of the input is left
\* unscanned (an empty keyword met before the end is not accepted); and an error
\* for a missing `=` cites the character found in place of it and the byte offset
\* of that character in the input.
C11_WholeInputParsed ==
    parser = "Parser" /\ pc = "done" =>
        /\ result = Some(Ok) => s = <<>>
        /\ result # None /\ result[1].error = "unexpected character" =>
               /\ result[1].what # <<"=">>
               /\ result[1].at \in 0..(Len(input) - 1)
               /\ Peek(SubSeq(input, result[1].at + 1, Len(input))) = result[1].what

RECURSIVE Chars(_)
\* the chars of a text, in order
Chars(str) == IF str = <<>> THEN <<>> ELSE <<Peek(str)>> \o Chars(Advance(str))

RECURSIVE Flat(_, _)
\* the text made of the chars of cs from the i-th on
Flat(cs, i) == IF i > Len(cs) THEN <<>> ELSE cs[i] \o Flat(cs, i + 1)

RECURSIVE Escaped(_, _)
\* the i-th char follows a `\` that escapes it
Escaped(cs, i) == i > 1 /\ cs[i - 1] = <<"\\">> /\ ~Escaped(cs, i - 1)

\* the i-th char is a `\` that escapes what follows it
Escaping(cs, i) == cs[i] = <<"\\">> /\ ~Escaped(cs, i)

RECURSIVE Unescaped(_, _)
\* the first n chars of cs with every escaping `\` dropped
Unescaped(cs, n) ==
    IF n = 0 THEN <<>> ELSE Unescaped(cs, n - 1) \o (IF Escaping(cs, n) THEN <<>> ELSE cs[n])

\* the positions that end a value: an unescaped `'` in a quoted value, an
\* unescaped whitespace char in a simple one
ValueEnds(cs, quoted) ==
    {i \in 1..Len(cs) : ~Escaped(cs, i) /\ (IF quoted THEN cs[i] = <<"'">> ELSE is_whitespace(cs[i]))}

\* the first position that ends the value, one past the last char without one
ValueEnd(cs, quoted) ==
    IF ValueEnds(cs, quoted) = {} THEN Len(cs) + 1
    ELSE CHOOSE i \in ValueEnds(cs, quoted) : \A j \in ValueEnds(cs, quoted) : i <= j

\* what the value that starts the text v0 is to decode to: whether it is
\* well-formed, its decoded text, and the text left after it
ValueSpec(v0) ==
    Eval({Eval({Eval({[ok |-> IF quoted THEN end <= Len(cs) ELSE Unescaped(cs, end - 1) # <<>>,
                       value |-> Unescaped(cs, end - 1),
                       rest |-> Flat(cs, IF quoted THEN end + 1 ELSE end)] :
                      end \in {ValueEnd(cs, quoted)}}) :
                cs \in {Chars(IF quoted THEN Advance(v0) ELSE v0)}}) :
          quoted \in {v0 # <<>> /\ Peek(v0) = <<"'">>}})

\* the text at which the value of the next parameter starts, when the text has a
\* keyword and `=` after it: <<text>>, and <<>> otherwise
ValueStart(str) ==
    Eval({IF k.kw = None THEN None
          ELSE Eval({IF e.res # Ok THEN None ELSE Some(SkipWs(e.s)) :
                     e \in {eat(SkipWs(k.s), <<"=">>, 0)}}) :
          k \in {keyword(SkipWs(str))}})

\* C12: key/value value decoding.  In a step of Parser::parse that reaches a
\* value: a quoted value ends at the first `'` that no `\` escapes and a simple
\* one before the first whitespace that no `\` escapes (or at the end of the
\* input); a quoted value without its end and a simple value that decodes to the
\* empty text fail with a syntax error and no configuration; otherwise param is
\* called with the keyword and with exactly the scanned chars less every escaping
\* `\`, and the scan goes on after the value.
C12_ValueDecoding ==
    [][pc = "parameter" /\ ValueStart(s) # None =>
           \A v \in {ValueSpec(ValueStart(s)[1])} :
               IF ~v.ok
               THEN /\ pc' = "done"
                    /\ result' # None
                    /\ result'[1].error \in {"unexpected EOF", "unterminated quoted connection parameter value"}
                    /\ ~Live(handles', ParserConfig)
               ELSE /\ last'.op = "param"
                    /\ last'.key = keyword(SkipWs(s)).kw[1]
                    /\ last'.value = v.value
                    /\ s' = v.rest]_vars

\* C12, its case: a quoted value with an escaped quote was decoded and applied.
C12_Witness ==
    /\ pc = "done" /\ parser = "Parser"
    /\ input = S("user='a\\''")
    /\ result = Some(Ok)
    /\ View(St, ParserConfig).user = Some(S("a'"))

\* the step ended the parse with a decode error and no configuration
DecodeFailure ==
    pc' = "done" /\ result' = Some(DecodeError) /\ ~Live(handles', ParserConfig)

FirstPair(str) == IF Find(str, {"&"}) = -1 THEN str ELSE SubSeq(str, 1, Find(str, {"&"}))

\* the query text after its first pair and the `&` that ends it
AfterFirstPair(str) ==
    IF Find(str, {"&"}) = -1 THEN <<>> ELSE SubSeq(str, Find(str, {"&"}) + 2, Len(str))

\* C14: URL query pairs must be terminated.  While query text is left, a first
\* pair without `=` ends the parse with an error and no configuration; a pair
\* with `=`, when the parse goes on, is consumed up to and with the `&` after
\* it; and with no query text left (an empty query, or after a trailing `&`) the
\* parse returns the configuration as it is.
C14_QueryPairsTerminated ==
    /\ [][pc = "parse_params" /\ StartsWith(s, <<"?">>) =>
              pc' = "parse_params_pair" /\ s' = Tail(s)]_vars
    /\ [][pc = "parse_params_pair" =>
              IF s = <<>>
              THEN /\ pc' = "return"
                   /\ Live(handles', ParserConfig)
                   /\ ViewAfter(ParserConfig) = View(St, ParserConfig)
              ELSE IF Find(FirstPair(s), {"="}) = -1
              THEN /\ pc' = "done"
                   /\ result' # None /\ result'[1].kind = "Err"
                   /\ ~Live(handles', ParserConfig)
              ELSE pc' = "parse_params_pair" => s' = AfterFirstPair(s)]_vars
    /\ [](pc = "return" /\ parser = "UrlParser" => s = <<>>)

\* C14, its case: a query with a pair and a trailing `&` was accepted.
C14_Witness ==
    /\ pc = "done" /\ result = Some(Ok)
    /\ input = S("postgres://h?user=u&")
    /\ View(St, ParserConfig).user = Some(S("u"))
====
